---- MODULE Spec2Model ----
(***************************************************************************)
(* Responsive navigation of the Fruit Tree front end.                      *)
(*                                                                         *)
(* The module models src/components/Navigation.jsx (the navigation bar the *)
(* views mount): the width estimator, the space budget, the mode selector, *)
(* the layout state it commits, the debounced resize handlers, the More    *)
(* menu with its click-outside listener.  The measuring variant of the     *)
(* same component (src/unnamed/part_008) is modelled for its timers.       *)
(*                                                                         *)
(* Object references to navigation items are encoded by the item's id.     *)
(* Widths are whole pixels.                                                *)
(***************************************************************************)
EXTENDS Integers, Sequences, FiniteSets, TLC

(***************************************************************************)
(* Bounds of the model (not program constants).                            *)
(***************************************************************************)
\* Width in px of one character of the 16px navigation font, as the canvas
\* of the environment reports it; other font sizes scale with the size.
GlyphWidth == 10
\* Most timers the browser's timer table holds in the model.
MaxPending == 3

\* window.innerWidth values of the environment.
WindowWidths == {500, 1100}
\* Widths the navigation container is measured at (getBoundingClientRect).
ContainerWidths == {0, 594, 1500}
\* The wider ranges the Mode Selector is applied to on its own.
SelectorWindowWidths == WindowWidths \cup {50, 767, 768, 1600}
SelectorContainerWidths == ContainerWidths \cup {593, 1000, 1407, 1408}

(***************************************************************************)
(* Configuration: Navigation.jsx navItems.                                 *)
(***************************************************************************)
navItems ==
  << [id |-> "dashboard", label |-> "Dashboard", shortLabel |-> "Dash",    priority |-> 1, alwaysVisible |-> TRUE],
     [id |-> "members",   label |-> "People",    shortLabel |-> "People",  priority |-> 2, alwaysVisible |-> TRUE],
     [id |-> "giving",    label |-> "Giving",    shortLabel |-> "Give",    priority |-> 3, alwaysVisible |-> TRUE],
     [id |-> "groups",    label |-> "Groups",    shortLabel |-> "Groups",  priority |-> 4, alwaysVisible |-> FALSE],
     [id |-> "forms",     label |-> "Forms",     shortLabel |-> "Forms",   priority |-> 5, alwaysVisible |-> FALSE],
     [id |-> "calendar",  label |-> "Calendar",  shortLabel |-> "Cal",     priority |-> 6, alwaysVisible |-> FALSE],
     [id |-> "workflows", label |-> "Workflows", shortLabel |-> "Work",    priority |-> 7, alwaysVisible |-> FALSE],
     [id |-> "reports",   label |-> "Reports",   shortLabel |-> "Reports", priority |-> 8, alwaysVisible |-> FALSE],
     [id |-> "settings",  label |-> "Settings",  shortLabel |-> "Set",     priority |-> 9, alwaysVisible |-> FALSE] >>

Modes == {"full", "compact", "icon", "mobile"}

\* The ids of a sequence of items, in order.
Ids(items) == [i \in 1..Len(items) |-> items[i].id]

\* The set of the elements of a sequence.
Range(s) == {s[i] : i \in 1..Len(s)}

\* Array.prototype.slice(from) / slice(0, to), 0-based as in the source.
SliceFrom(s, from) == SubSeq(s, from + 1, Len(s))
SliceTo(s, to) == SubSeq(s, 1, IF to < Len(s) THEN to ELSE Len(s))

\* Array.prototype.filter with the predicate "item.alwaysVisible = flag".
RECURSIVE FilterAlwaysVisible(_, _)
FilterAlwaysVisible(items, flag) ==
  IF items = <<>> THEN <<>>
  ELSE IF Head(items).alwaysVisible = flag
       THEN <<Head(items)>> \o FilterAlwaysVisible(Tail(items), flag)
       ELSE FilterAlwaysVisible(Tail(items), flag)

\* Array.prototype.sort((a, b) => a.priority - b.priority): a stable sort,
\* here by insertion after the last element that is not greater.
RECURSIVE InsertByPriority(_, _)
InsertByPriority(item, sorted) ==
  IF sorted = <<>> THEN <<item>>
  ELSE IF Head(sorted).priority <= item.priority
       THEN <<Head(sorted)>> \o InsertByPriority(item, Tail(sorted))
       ELSE <<item>> \o sorted

RECURSIVE SortByPriority(_)
SortByPriority(items) ==
  IF items = <<>> THEN <<>>
  ELSE InsertByPriority(items[Len(items)],
                        SortByPriority(SubSeq(items, 1, Len(items) - 1)))

(***************************************************************************)
(* Text/Item Width Estimator.                                              *)
(***************************************************************************)
\* context.measureText(text).width for the font "600 <fontPx>px Inter".
MeasureText(text, fontPx) == (Len(text) * GlyphWidth * fontPx) \div 16

\* The text measureItemWidth measures: mode === 'compact' ?
\* (item.shortLabel || item.label) : item.label
MeasuredText(item, mode) ==
  IF mode = "compact"
  THEN (IF item.shortLabel # "" THEN item.shortLabel ELSE item.label)
  ELSE item.label

\* measureItemWidth(item, mode), in a browser (window is defined).
measureItemWidth(item, mode) ==
  LET fontSize == IF mode = "compact" THEN 15 ELSE 16
      text == MeasuredText(item, mode)
  IN  MeasureText(text, fontSize) + 72

\* The text-measuring surfaces measureItemWidth can meet: a browser with a
\* canvas 2D context, a browser whose canvas.getContext('2d') returns null,
\* and no window at all.
Surfaces == {"canvas", "noContext", "noWindow"}

\* measureItemWidth(item, mode) on a surface: the width it returns, or the
\* TypeError of context.font = ... on a null context.
measureItemWidthOn(surface, item, mode) ==
  CASE surface = "noWindow" -> [threw |-> FALSE, width |-> 80]
    [] surface = "noContext" -> [threw |-> TRUE, width |-> 0]
    [] OTHER -> [threw |-> FALSE, width |-> measureItemWidth(item, mode)]

(***************************************************************************)
(* Space Budget Calculator.                                                *)
(***************************************************************************)
\* calculateAvailableSpace(), with what it reads made explicit:
\* window.innerWidth, navContainerRef.current (hasContainer) and its
\* measured width, and the navigationMode its closure holds.
calculateAvailableSpaceUnclamped(windowWidth, hasContainer, cWidth, navMode) ==
  IF windowWidth < 768 THEN windowWidth - 100
  ELSE IF hasContainer THEN cWidth - 80 - 40
  ELSE windowWidth - (IF navMode = "icon" THEN 200 ELSE 320) - 280 - 120
calculateAvailableSpace(windowWidth, hasContainer, cWidth, navMode) ==
  IF windowWidth < 768 THEN windowWidth - 100
  ELSE IF hasContainer
  THEN LET moreButtonWidth == 80
           bufferSpace == 40
           space == cWidth - moreButtonWidth - bufferSpace
       IN  IF space > 200 THEN space ELSE 200
  ELSE LET logoAreaWidth == IF navMode = "icon" THEN 200 ELSE 320
           userAreaWidth == 280
           availableWidth == windowWidth - logoAreaWidth - userAreaWidth - 120
       IN  IF availableWidth > 200 THEN availableWidth ELSE 200

(***************************************************************************)
(* Mode Selector.                                                          *)
(***************************************************************************)
\* navItems.filter(item => item.alwaysVisible)
coreItemsSwapped == FilterAlwaysVisible(navItems, FALSE)
coreItems == FilterAlwaysVisible(navItems, TRUE)

\* navItems.filter(item => !item.alwaysVisible).sort(by priority)
RECURSIVE Reversed(_)
Reversed(items) ==
  IF items = <<>> THEN <<>> ELSE Append(Reversed(Tail(items)), Head(items))
dynamicItemsDescending ==
  Reversed(SortByPriority(FilterAlwaysVisible(navItems, FALSE)))
dynamicItems == SortByPriority(FilterAlwaysVisible(navItems, FALSE))

\* The width one item takes in a pass: measured in the text modes, 60 in
\* the icon pass.
PassWidth(item, mode) ==
  IF mode = "icon" THEN 60 ELSE measureItemWidth(item, mode)

\* coreItems.forEach(item => currentWidth += width)
RECURSIVE SumWidths(_, _)
SumWidths(items, mode) ==
  IF items = <<>> THEN 0
  ELSE PassWidth(Head(items), mode) + SumWidths(Tail(items), mode)

\* for (const item of dynamicItems) { if fits push else break }
RECURSIVE AddWhileFitsSkipping(_, _, _, _)
AddWhileFitsSkipping(items, mode, currentWidth, availableSpace) ==
  IF items = <<>> THEN <<>>
  ELSE LET itemWidth == PassWidth(Head(items), mode)
       IN  IF currentWidth + itemWidth <= availableSpace
           THEN <<Head(items)>>
                \o AddWhileFitsSkipping(Tail(items), mode,
                                        currentWidth + itemWidth, availableSpace)
           ELSE AddWhileFitsSkipping(Tail(items), mode, currentWidth,
                                     availableSpace)
RECURSIVE AddWhileFits(_, _, _, _)
AddWhileFits(items, mode, currentWidth, availableSpace) ==
  IF items = <<>> THEN <<>>
  ELSE LET itemWidth == PassWidth(Head(items), mode)
       IN  IF currentWidth + itemWidth <= availableSpace
           THEN <<Head(items)>>
                \o AddWhileFits(Tail(items), mode, currentWidth + itemWidth,
                                availableSpace)
           ELSE <<>>

\* One pass: visible = [...coreItems] plus the dynamic items that fit.
PassVisibleFromZero(mode, availableSpace) ==
  coreItems \o AddWhileFits(dynamicItems, mode, 0, availableSpace)
PassVisible(mode, availableSpace) ==
  coreItems \o AddWhileFits(dynamicItems, mode, SumWidths(coreItems, mode),
                            availableSpace)

\* visible.length < 4 && currentMode === 'compact'
NeedsIconModeNever(visible, currentMode) == FALSE
NeedsIconModeInverted(visible, currentMode) ==
  Len(visible) >= 4 /\ currentMode = "compact"
NeedsIconMode(visible, currentMode) ==
  Len(visible) < 4 /\ currentMode = "compact"

\* navItems.filter(item => !visible.find(v => v.id === item.id))
RECURSIVE FilterNotIn(_, _)
FilterNotIn(items, visible) ==
  IF items = <<>> THEN <<>>
  ELSE IF Head(items).id \in Range(Ids(visible))
       THEN FilterNotIn(Tail(items), visible)
       ELSE <<Head(items)>> \o FilterNotIn(Tail(items), visible)

HiddenOfSliced(visible) == SliceFrom(navItems, 3)
HiddenOf(visible) == FilterNotIn(navItems, visible)

\* The budgeted part of calculateVisibleItems (window width >= 768).
SelectForSpace(availableSpace) ==
  LET full == PassVisible("full", availableSpace)
      allItemsFitInFull == Len(full) = Len(navItems)
      mode1 == IF allItemsFitInFull THEN "full" ELSE "compact"
      vis1 == IF allItemsFitInFull THEN full
              ELSE PassVisible("compact", availableSpace)
      icon == NeedsIconMode(vis1, mode1)
      currentMode == IF icon THEN "icon" ELSE mode1
      visible == SortByPriority(IF icon THEN PassVisible("icon", availableSpace)
                                ELSE vis1)
  IN  [mode |-> currentMode, visible |-> Ids(visible),
       hidden |-> Ids(HiddenOf(visible))]

\* calculateVisibleItems(), with what it reads made explicit.
calculateVisibleItemsByBudget(windowWidth, hasContainer, cWidth, navMode) ==
  SelectForSpace(calculateAvailableSpace(windowWidth, hasContainer, cWidth, navMode))
calculateVisibleItems(windowWidth, hasContainer, cWidth, navMode) ==
  IF windowWidth < 768
  THEN [mode |-> "mobile", visible |-> Ids(SliceTo(navItems, 3)),
        hidden |-> Ids(SliceFrom(navItems, 3))]
  ELSE SelectForSpace(calculateAvailableSpace(windowWidth, hasContainer,
                                               cWidth, navMode))

(***************************************************************************)
(* State.                                                                  *)
(***************************************************************************)
VARIABLES
  innerWidth,                \* window.innerWidth
  containerWidth,            \* navContainerRef.current.getBoundingClientRect().width
  containerMounted,          \* whether the environment gives the ref a DOM node
  phase,                     \* "rendered" (first render committed, effects not
                             \* yet run), "mounted", "unmounted"
  closureNavigationMode,     \* navigationMode as the mount effect's closure holds it
  navigationMode,            \* useState('full')
  visibleItems,              \* useState([])
  hiddenItems,               \* useState([])
  previousNavigationState,   \* useRef({mode: 'full', visible: [], hidden: []})
  showMoreDropdown,          \* useState(false)
  gesture,                   \* the pointer gesture in progress or last finished
  timerTable,                \* the browser's pending timers
  navigationResizeTimeout,   \* window.navigationResizeTimeout
  navigationZoomTimeout,     \* window.navigationZoomTimeout
  navigationObserverTimeout, \* window.navigationObserverTimeout
  lastCall,                  \* history: the latest Mode Selector call
  sample,                    \* history: some earlier Mode Selector call
  fired,                     \* history: per handler, the recomputations its
                             \* timers have run since its latest notification
  notified,                  \* history: per handler, the notifications that
                             \* came while its timer was pending, the one
                             \* that set the timer included
  burstTimer,                \* history: the timer the latest notification
                             \* set, 0 once it has run
  burstFired,                \* history: recomputations since the burst began
  measurePhase,              \* part_008: "unmounted" / "mounted"
  currentView,               \* part_008: the currentView prop
  user,                      \* part_008: the user prop (its name)
  measureTimers,             \* part_008: the pending timers it has set
  navigationMeasurementTimeout, \* window.navigationMeasurementTimeout
  measurements,              \* part_008: useState({containerWidth: 0, ...})
  lateRuns,                  \* history: timer callbacks of part_008 that ran
                             \* after their instance was unmounted
  estimate,                  \* the latest measureItemWidth call on its own:
                             \* its arguments, the surface and the outcome
  rendering,                 \* the latest item button rendered on its own: the
                             \* item, the mode, window.outerWidth, the label
                             \* and the title it got
  app                        \* part_011: the state of App (isAuthenticated,
                             \* user, currentView) and, in dashboardView, the
                             \* currentView state of the Dashboard it renders

envVars == <<innerWidth, containerWidth, containerMounted>>
layoutVars == <<navigationMode, visibleItems, hiddenItems, previousNavigationState>>
menuVars == <<showMoreDropdown, gesture>>
timerVars == <<timerTable, navigationResizeTimeout, navigationZoomTimeout,
               navigationObserverTimeout>>
selectorHistory == <<lastCall, sample>>
debounceHistory == <<fired, notified, burstTimer, burstFired>>
measureVars == <<measurePhase, currentView, user, measureTimers,
                 navigationMeasurementTimeout, measurements, lateRuns>>
vars == <<envVars, phase, closureNavigationMode, layoutVars, menuVars, timerVars,
          selectorHistory, debounceHistory, measureVars, estimate, rendering, app>>

TimerKinds == {"resize", "zoom", "observer"}
NoCall == [in |-> <<>>, space |-> 0, out |-> <<>>]
NoGesture == [target |-> [el |-> "none", id |-> ""], wasOpen |-> FALSE,
              phase |-> "idle", calls |-> <<>>]

NoEstimate == [called |-> FALSE, item |-> 0, mode |-> "", surface |-> "",
               threw |-> FALSE, width |-> 0]

\* A label that is null (no text is rendered), and an attribute that is
\* undefined.
NullLabel == [isNull |-> TRUE, text |-> ""]
NoRendering == [called |-> FALSE, item |-> 0, mode |-> "", outerWidth |-> 0,
                label |-> NullLabel, title |-> NullLabel]

\* part_011: useState(false), useState(null), useState('dashboard'); a user
\* is null (the empty sequence) or one userData object.  part_001:
\* useState('dashboard') of Dashboard.
AppInit == [isAuthenticated |-> FALSE, user |-> <<>>, currentView |-> "dashboard",
            dashboardView |-> "dashboard"]

\* part_008: the initial value of the measurements state.
NoMeasurements ==
  [containerWidth |-> 0, logoAreaWidth |-> 0, userAreaWidth |-> 0,
   availableNavSpace |-> 0, totalNavItemsWidth |-> 0, overflowItems |-> <<>>]

\* The state of a fresh instance: the useState / useRef initial values.
FreshState ==
  /\ navigationMode = "full"
  /\ visibleItems = <<>>
  /\ hiddenItems = <<>>
  /\ previousNavigationState = [mode |-> "full", visible |-> <<>>, hidden |-> <<>>]
  /\ showMoreDropdown = FALSE

\* A new instance takes the initial values again.
ResetState ==
  /\ navigationMode' = "full"
  /\ visibleItems' = <<>>
  /\ hiddenItems' = <<>>
  /\ previousNavigationState' = [mode |-> "full", visible |-> <<>>, hidden |-> <<>>]
  /\ showMoreDropdown' = FALSE

Init ==
  /\ innerWidth \in WindowWidths
  /\ containerMounted \in BOOLEAN
  /\ containerWidth \in (IF containerMounted THEN ContainerWidths ELSE {0})
  /\ phase = "rendered"
  /\ closureNavigationMode = "full"
  /\ FreshState
  /\ gesture = NoGesture
  /\ timerTable = {}
  /\ navigationResizeTimeout = 0
  /\ navigationZoomTimeout = 0
  /\ navigationObserverTimeout = 0
  /\ lastCall = NoCall
  /\ sample = NoCall
  /\ fired = [k \in TimerKinds |-> 0]
  /\ notified = [k \in TimerKinds |-> 0]
  /\ burstTimer = 0
  /\ burstFired = 0
  /\ measurePhase = "unmounted"
  /\ currentView = "dashboard"
  /\ user = "Demo User"
  /\ measureTimers = {}
  /\ navigationMeasurementTimeout = 0
  /\ measurements = NoMeasurements
  /\ lateRuns = 0
  /\ estimate = NoEstimate
  /\ rendering = NoRendering
  /\ app = AppInit

(***************************************************************************)
(* updateNavigationVisibility.                                             *)
(***************************************************************************)
\* The navigationMode that calculateAvailableSpace reads when it is reached
\* from the mount effect (useEffect(..., [])): the effect and its handlers
\* keep the first render's updateNavigationVisibility, whose closure chain
\* holds the first render's navigationMode.
CurrentNavigationMode == navigationMode
CapturedNavigationMode == closureNavigationMode

\* calculateVisibleItems() over the values of the environment, as a table:
\* the function is computed once per argument.
selectedTable ==
  [w \in SelectorWindowWidths, hasContainer \in BOOLEAN,
   c \in SelectorContainerWidths, navMode \in Modes |->
     calculateVisibleItems(w, hasContainer, c, navMode)]

\* What the Mode Selector returns in the current environment.
Selected ==
  selectedTable[innerWidth, containerMounted, containerWidth,
                CapturedNavigationMode]

\* prev.visible.every((item, index) => item.id === visible[index]?.id)
EveryMatches(prevIds, ids) ==
  \A i \in 1..Len(prevIds) : i <= Len(ids) /\ prevIds[i] = ids[i]

hasChangesButMode(prev, new) ==
  \/ Len(prev.visible) # Len(new.visible)
  \/ Len(prev.hidden) # Len(new.hidden)
  \/ ~EveryMatches(prev.visible, new.visible)
  \/ ~EveryMatches(prev.hidden, new.hidden)
hasChanges(prev, new) ==
  \/ prev.mode # new.mode
  \/ Len(prev.visible) # Len(new.visible)
  \/ Len(prev.hidden) # Len(new.hidden)
  \/ ~EveryMatches(prev.visible, new.visible)
  \/ ~EveryMatches(prev.hidden, new.hidden)

updateNavigationVisibility ==
  LET new == Selected
  IN  IF hasChanges(previousNavigationState, new)
      THEN /\ previousNavigationState' = new
           /\ navigationMode' = new.mode
           /\ visibleItems' = new.visible
           /\ hiddenItems' = new.hidden
      ELSE UNCHANGED layoutVars

\* History of the Mode Selector's calls: the latest one, and an arbitrary
\* earlier one.
RecordCall ==
  /\ lastCall' = [in |-> <<innerWidth, containerMounted, containerWidth>>,
                  space |-> calculateAvailableSpace(innerWidth, containerMounted,
                              containerWidth, CapturedNavigationMode),
                  out |-> Selected]
  /\ sample' \in {sample, lastCall}

(***************************************************************************)
(* Timers: setTimeout / clearTimeout on the browser's timer table.  A      *)
(* handle names the pending timer it was last set to, or is 0: the browser *)
(* never reuses an id, so clearTimeout of a timer that has run does        *)
(* nothing, exactly as clearTimeout(0).                                    *)
(***************************************************************************)
delayOf(kind) ==
  CASE kind = "resize" -> 100
    [] kind = "zoom" -> 150
    [] kind = "observer" -> 50

handleOf(kind) ==
  CASE kind = "resize" -> navigationResizeTimeout
    [] kind = "zoom" -> navigationZoomTimeout
    [] kind = "observer" -> navigationObserverTimeout

\* The id setTimeout returns: one that no pending timer of the table has.
NewTimerId(table) ==
  CHOOSE n \in 1..(Cardinality(table) + 1) : \A t \in table : t.id # n

\* clearTimeout(handle) on a timer table.
clearTimeoutKept(table, handle) == table
clearTimeout(table, handle) == {t \in table : t.id # handle}

\* The debounce of one handler: clearTimeout(window.<handle>);
\* window.<handle> = setTimeout(updateNavigationVisibility, delay).
Debounce(kind) ==
  LET id == NewTimerId(clearTimeout(timerTable, handleOf(kind)))
      handles == [k \in TimerKinds |-> IF k = kind THEN id ELSE handleOf(k)]
  IN  /\ Cardinality(timerTable) <= MaxPending
      /\ timerTable' = clearTimeout(timerTable, handleOf(kind))
                         \cup {[id |-> id, kind |-> kind, left |-> delayOf(kind)]}
      /\ navigationResizeTimeout' = handles["resize"]
      /\ navigationZoomTimeout' = handles["zoom"]
      /\ navigationObserverTimeout' = handles["observer"]

handleResize == Debounce("resize")
handleZoom == Debounce("zoom")
\* for (const entry of entries) if (entry.contentRect.width > 0) {...}:
\* the observer watches one element, so there is one entry.
handleObserverResizeIgnored(width) == UNCHANGED timerVars
handleObserverResize(width) ==
  IF width > 0 THEN Debounce("observer") ELSE UNCHANGED timerVars

(***************************************************************************)
(* Lifecycle.                                                              *)
(***************************************************************************)
\* The mount effect: the initial calculation, then the listeners.
MountEffect ==
  /\ phase = "rendered"
  /\ phase' = "mounted"
  /\ closureNavigationMode' = navigationMode
  /\ updateNavigationVisibility
  /\ UNCHANGED <<envVars, menuVars, timerVars>>

\* The cleanup of the effects on unmount; the instance's state is dropped.
Unmount ==
  /\ phase = "mounted"
  /\ phase' = "unmounted"
  /\ timerTable' = clearTimeout(clearTimeout(clearTimeout(timerTable,
                       navigationResizeTimeout), navigationZoomTimeout),
                       navigationObserverTimeout)
  /\ navigationResizeTimeout' = 0
  /\ navigationZoomTimeout' = 0
  /\ navigationObserverTimeout' = 0
  /\ ResetState
  /\ gesture' = NoGesture
  /\ UNCHANGED <<envVars, closureNavigationMode>>

\* A new instance renders with the initial state.
Render ==
  /\ phase = "unmounted"
  /\ phase' = "rendered"
  /\ closureNavigationMode' = "full"
  /\ ResetState
  /\ gesture' = NoGesture
  /\ UNCHANGED <<envVars, timerVars>>

(***************************************************************************)
(* Notifications of the environment.                                       *)
(***************************************************************************)
Listening == phase = "mounted"

\* window 'resize'
WindowResize(w) ==
  /\ phase # "rendered"
  /\ innerWidth' = w
  /\ IF Listening THEN handleResize ELSE UNCHANGED timerVars
  /\ UNCHANGED <<containerWidth, containerMounted, phase, closureNavigationMode,
                 layoutVars, menuVars>>

\* window 'orientationchange'
OrientationChange(w) ==
  /\ Listening
  /\ innerWidth' = w
  /\ handleResize
  /\ UNCHANGED <<containerWidth, containerMounted, phase, closureNavigationMode,
                 layoutVars, menuVars>>

\* window.visualViewport 'resize' (zoom)
ViewportResize(w) ==
  /\ Listening
  /\ innerWidth' = w
  /\ handleZoom
  /\ UNCHANGED <<containerWidth, containerMounted, phase, closureNavigationMode,
                 layoutVars, menuVars>>

\* ResizeObserver on the navigation container
ObserverResize(c) ==
  /\ Listening
  /\ containerMounted
  /\ containerWidth' = c
  /\ handleObserverResize(c)
  /\ UNCHANGED <<innerWidth, containerMounted, phase, closureNavigationMode,
                 layoutVars, menuVars>>

(***************************************************************************)
(* Time and timer expiry.                                                  *)
(***************************************************************************)
RECURSIVE MinLeft(_)
MinLeft(table) ==
  LET t == CHOOSE x \in table : TRUE
      rest == table \ {t}
  IN  IF rest = {} THEN t.left
      ELSE IF t.left < MinLeft(rest) THEN t.left ELSE MinLeft(rest)

\* Time passes, never past a pending timer's expiry, in steps of the
\* shortest debounce delay (the other delays are multiples of it).
Tick ==
  /\ timerTable # {}
  /\ \A t \in timerTable : t.left > 0
  /\ LET step == delayOf("observer")
         d == IF MinLeft(timerTable) < step THEN MinLeft(timerTable) ELSE step
     IN  timerTable' = {[t EXCEPT !.left = t.left - d] : t \in timerTable}
  /\ UNCHANGED <<envVars, phase, closureNavigationMode, layoutVars, menuVars,
                 navigationResizeTimeout, navigationZoomTimeout,
                 navigationObserverTimeout>>

\* An expired timer runs its callback: updateNavigationVisibility().
TimerFires(t) ==
  /\ t \in timerTable
  /\ t.left = 0
  /\ timerTable' = timerTable \ {t}
  /\ navigationResizeTimeout' =
       IF navigationResizeTimeout = t.id THEN 0 ELSE navigationResizeTimeout
  /\ navigationZoomTimeout' =
       IF navigationZoomTimeout = t.id THEN 0 ELSE navigationZoomTimeout
  /\ navigationObserverTimeout' =
       IF navigationObserverTimeout = t.id THEN 0 ELSE navigationObserverTimeout
  /\ updateNavigationVisibility
  /\ UNCHANGED <<envVars, phase, closureNavigationMode, menuVars>>

(***************************************************************************)
(* What is rendered, and what the style sheet displays.                    *)
(***************************************************************************)
Target(el, id) == [el |-> el, id |-> id]

DesktopElements == {"navItem", "more", "dropdownItem"}
MobileElements == {"mobileItem", "mobileMore", "mobileDropdownItem"}

\* The elements the render function returns for the current state.
Rendered(t) ==
  CASE t.el = "outside" -> TRUE
    [] t.el = "navItem" -> t.id \in Range(visibleItems)
    [] t.el = "more" -> Len(hiddenItems) > 0
    [] t.el = "dropdownItem" ->
         Len(hiddenItems) > 0 /\ showMoreDropdown /\ t.id \in Range(hiddenItems)
    [] t.el = "mobileItem" -> t.id \in Range(Ids(SliceTo(navItems, 3)))
    [] t.el = "mobileMore" -> TRUE
    [] t.el = "mobileDropdownItem" ->
         showMoreDropdown /\ t.id \in Range(Ids(SliceFrom(navItems, 3)))
    [] OTHER -> FALSE

\* "hidden md:flex" on the desktop section, "md:hidden" on the mobile one.
Displayed(t) ==
  /\ phase # "unmounted"
  /\ Rendered(t)
  /\ t.el \in DesktopElements => innerWidth >= 768
  /\ t.el \in MobileElements => innerWidth < 768

\* The items a gesture of the model aims at: an always visible one, the
\* first optional one, the last one.
GestureIds == {"dashboard", "groups", "settings"}
Targets ==
  {Target("outside", ""), Target("more", ""), Target("mobileMore", "")}
  \cup {Target(el, id) : el \in {"navItem", "dropdownItem", "mobileItem",
                                 "mobileDropdownItem"},
                         id \in GestureIds}

\* moreButtonRef.current / dropdownRef.current are set while their element
\* is rendered.
moreButtonRefSet == Rendered(Target("more", ""))
dropdownRefSet == Len(hiddenItems) > 0 /\ showMoreDropdown

(***************************************************************************)
(* Pointer gestures: a mousedown, then the click if the element under the  *)
(* pointer is still there.                                                 *)
(***************************************************************************)
\* handleClickOutside(event), the document's mousedown listener.
handleClickOutside(t) ==
  IF /\ showMoreDropdown
     /\ moreButtonRefSet
     /\ t.el # "more"
     /\ dropdownRefSet
     /\ t.el # "dropdownItem"
  THEN showMoreDropdown' = FALSE
  ELSE UNCHANGED showMoreDropdown

MouseDown(t) ==
  /\ phase = "mounted"
  /\ gesture.phase # "down"
  /\ Displayed(t)
  /\ handleClickOutside(t)
  /\ gesture' = [target |-> t, wasOpen |-> showMoreDropdown, phase |-> "down",
                 calls |-> <<>>]
  /\ UNCHANGED <<envVars, phase, closureNavigationMode, layoutVars, timerVars>>

\* The element's onClick.
onClickNavigatesTwice(t) ==
  /\ gesture' = [gesture EXCEPT !.phase = "clicked",
                                !.calls = Append(Append(@, t.id), t.id)]
  /\ showMoreDropdown' = (showMoreDropdown /\ t.el \in {"navItem", "mobileItem"})
onClick(t) ==
  CASE t.el \in {"navItem", "mobileItem"} ->
         /\ gesture' = [gesture EXCEPT !.phase = "clicked",
                                       !.calls = Append(@, t.id)]
         /\ UNCHANGED showMoreDropdown
    [] t.el \in {"more", "mobileMore"} ->
         /\ gesture' = [gesture EXCEPT !.phase = "clicked"]
         /\ showMoreDropdown' = ~showMoreDropdown
    [] t.el \in {"dropdownItem", "mobileDropdownItem"} ->
         /\ gesture' = [gesture EXCEPT !.phase = "clicked",
                                       !.calls = Append(@, t.id)]
         /\ showMoreDropdown' = FALSE
    [] OTHER ->
         /\ gesture' = [gesture EXCEPT !.phase = "clicked"]
         /\ UNCHANGED showMoreDropdown

Click ==
  /\ phase = "mounted"
  /\ gesture.phase = "down"
  /\ Displayed(gesture.target)
  /\ onClick(gesture.target)
  /\ UNCHANGED <<envVars, phase, closureNavigationMode, layoutVars, timerVars>>

\* The element went away between the mousedown and the mouseup: no click.
PointerLost ==
  /\ phase = "mounted"
  /\ gesture.phase = "down"
  /\ ~Displayed(gesture.target)
  /\ gesture' = [gesture EXCEPT !.phase = "dropped"]
  /\ UNCHANGED <<envVars, phase, closureNavigationMode, layoutVars, timerVars,
                 showMoreDropdown>>

\* A step that touches neither the histories nor the measuring variant.
NoHistory == UNCHANGED <<selectorHistory, debounceHistory, measureVars, estimate, rendering, app>>

(***************************************************************************)
(* Specification of the Mode Selector: the environment takes any of its    *)
(* values and updateNavigationVisibility (the body of every timer callback *)
(* and of the initial calculation) is applied to it.                       *)
(***************************************************************************)
SetWindowWidth(w) ==
  /\ innerWidth' = w
  /\ UNCHANGED <<containerWidth, containerMounted, phase, closureNavigationMode,
                 layoutVars, menuVars, timerVars>>

SetContainerWidth(c) ==
  /\ containerMounted
  /\ containerWidth' = c
  /\ UNCHANGED <<innerWidth, containerMounted, phase, closureNavigationMode,
                 layoutVars, menuVars, timerVars>>

Recompute ==
  /\ phase = "mounted"
  /\ updateNavigationVisibility
  /\ UNCHANGED <<envVars, phase, closureNavigationMode, menuVars, timerVars>>

NextSelector ==
  \/ MountEffect /\ RecordCall /\ UNCHANGED <<debounceHistory, measureVars, estimate, rendering, app>>
  \/ Recompute /\ RecordCall /\ UNCHANGED <<debounceHistory, measureVars, estimate, rendering, app>>
  \/ \E w \in SelectorWindowWidths : SetWindowWidth(w) /\ NoHistory
  \/ \E c \in SelectorContainerWidths : SetContainerWidth(c) /\ NoHistory
  \/ Unmount /\ NoHistory
  \/ Render /\ NoHistory

SpecSelector == Init /\ [][NextSelector]_vars

(***************************************************************************)
(* Claims about the Mode Selector (SpecSelector).                          *)
(***************************************************************************)
Called(call) == call # NoCall
BothCalled == Called(sample) /\ Called(lastCall)
ItemIds == Range(Ids(navItems))
AlwaysVisibleIds == {navItems[i].id : i \in {j \in 1..Len(navItems) : navItems[j].alwaysVisible}}
NoDuplicates(s) == \A i, j \in 1..Len(s) : s[i] = s[j] => i = j
IsPartition(visible, hidden) ==
  /\ Range(visible) \cup Range(hidden) = ItemIds
  /\ Range(visible) \cap Range(hidden) = {}
  /\ NoDuplicates(visible)
  /\ NoDuplicates(hidden)

\* C1: whatever the window width and the budget, the Mode Selector's result
\* splits the configured items into visible and hidden: every item is in
\* exactly one of the two lists, once; so does the layout the component
\* commits.
C1_Partition ==
  /\ Called(lastCall) => IsPartition(lastCall.out.visible, lastCall.out.hidden)
  /\ phase = "mounted" => IsPartition(visibleItems, hiddenItems)

C1_Witness ==
  /\ Called(lastCall)
  /\ lastCall.out.mode = "compact"
  /\ Len(lastCall.out.visible) = 4
  /\ Len(lastCall.out.hidden) = 5
  /\ Called(sample)
  /\ sample.out.mode = "mobile"

\* C2: in every mode the Mode Selector returns, each alwaysVisible item
\* (dashboard, members, giving) is in the visible list and not in the hidden
\* list.
C2_CoreVisible ==
  Called(lastCall) =>
    \A id \in AlwaysVisibleIds :
      /\ id \in Range(lastCall.out.visible)
      /\ id \notin Range(lastCall.out.hidden)

C2_Witness ==
  /\ BothCalled
  /\ lastCall.out.mode = "icon"
  /\ Len(lastCall.out.visible) = 3
  /\ sample.out.mode = "mobile"

\* C3 (as claimed): at one window width >= 768, of two calls of the Mode
\* Selector the one with the smaller budget never shows more items.
SameDesktopWidth ==
  /\ BothCalled
  /\ sample.in[1] >= 768
  /\ sample.in[1] = lastCall.in[1]

C3_VisibleCountMonotone ==
  SameDesktopWidth =>
    /\ sample.space <= lastCall.space
         => Len(sample.out.visible) <= Len(lastCall.out.visible)
    /\ lastCall.space <= sample.space
         => Len(lastCall.out.visible) <= Len(sample.out.visible)

ModeRank(mode) ==
  CASE mode = "full" -> 1
    [] mode = "compact" -> 2
    [] mode = "icon" -> 3
    [] mode = "mobile" -> 4

SmallerBudgetNotRicher ==
  /\ sample.space <= lastCall.space
       => ModeRank(sample.out.mode) >= ModeRank(lastCall.out.mode)
  /\ lastCall.space <= sample.space
       => ModeRank(lastCall.out.mode) >= ModeRank(sample.out.mode)

\* C4 (as claimed): with the modes ordered full < compact < icon < mobile, of
\* any two calls of the Mode Selector the one with the smaller budget never
\* returns the richer mode.
C4_ModeMonotoneAnyWidth == BothCalled => SmallerBudgetNotRicher

SameSideOfBreakpoint == (sample.in[1] < 768) <=> (lastCall.in[1] < 768)

\* C4 (amended): of two calls of the Mode Selector whose window widths lie
\* on the same side of the 768 px breakpoint, the one with the smaller
\* budget never returns the richer mode.
C4_ModeMonotone ==
  (BothCalled /\ SameSideOfBreakpoint) => SmallerBudgetNotRicher

C4_Witness ==
  /\ BothCalled
  /\ sample.in[1] >= 768
  /\ lastCall.in[1] >= 768
  /\ sample.space < lastCall.space
  /\ sample.out.mode = "icon"
  /\ lastCall.out.mode = "compact"

FirstThreeIds == <<"dashboard", "members", "giving">>
RestIds == <<"groups", "forms", "calendar", "workflows", "reports", "settings">>
MobileLayout == [mode |-> "mobile", visible |-> FirstThreeIds, hidden |-> RestIds]

\* C13: at a window width below 768 the Mode Selector returns mode mobile
\* with the first three configured items visible and the others hidden,
\* whatever the container and the budget.
C13_MobileBelowBreakpoint ==
  \A call \in {lastCall, sample} :
    (Called(call) /\ call.in[1] < 768) => call.out = MobileLayout

\* Two calls below 768 with different containers and budgets.
C13_Witness ==
  /\ BothCalled
  /\ sample.in[1] < 768
  /\ lastCall.in[1] < 768
  /\ sample.in[3] # lastCall.in[3]
  /\ sample.space < 180
  /\ lastCall.space > 600
  /\ lastCall.out = MobileLayout

\* The budget fits the three alwaysVisible items in compact mode and not the
\* next optional item with them.
FitsCompactCoreOnly(call) ==
  /\ Called(call)
  /\ call.in[1] >= 768
  /\ SumWidths(coreItems, "compact") <= call.space
  /\ call.space < SumWidths(coreItems, "compact")
                    + measureItemWidth(dynamicItems[1], "compact")

\* C15 (as claimed): for a budget that fits the three alwaysVisible items in
\* compact mode but not the next optional item, the Mode Selector returns
\* mode compact with the three alwaysVisible items visible, in priority
\* order, and every optional item hidden.
C15_CompactCoreOnly ==
  FitsCompactCoreOnly(lastCall) =>
    /\ lastCall.out.mode = "compact"
    /\ lastCall.out.visible = FirstThreeIds
    /\ lastCall.out.hidden = RestIds

\* The first n configured items, at most all of them.
FirstIds(n) == SubSeq(Ids(navItems), 1, IF n < Len(navItems) THEN n ELSE Len(navItems))
AfterFirstIds(n) ==
  SubSeq(Ids(navItems), (IF n < Len(navItems) THEN n ELSE Len(navItems)) + 1,
         Len(navItems))

\* C15 (amended): for such a budget the Mode Selector returns mode icon with
\* as many items visible as fit at 60 px each, in priority order, the three
\* alwaysVisible items among them, and the others hidden; mode compact is
\* returned only with four or more visible items.
C15_IconWhenCompactKeepsCore ==
  /\ FitsCompactCoreOnly(lastCall) =>
       /\ lastCall.out.mode = "icon"
       /\ lastCall.out.visible = FirstIds(lastCall.space \div 60)
       /\ lastCall.out.hidden = AfterFirstIds(lastCall.space \div 60)
       /\ Len(lastCall.out.visible) >= 3
  /\ (Called(lastCall) /\ lastCall.out.mode = "compact") =>
       Len(lastCall.out.visible) >= 4

C15_Witness ==
  /\ FitsCompactCoreOnly(lastCall)
  /\ lastCall.out.mode = "icon"
  /\ Len(lastCall.out.hidden) > 0

\* C16: a budget below the icon-mode width of the alwaysVisible items gives
\* mode mobile with the first three items visible and the others hidden, and
\* an icon result never holds more items than fit the budget at 60 px each.
C16_NoIconBeyondBudget ==
  Called(lastCall) =>
    /\ lastCall.space < 60 * Len(coreItems) => lastCall.out = MobileLayout
    /\ lastCall.out.mode = "icon" =>
         60 * Len(lastCall.out.visible) <= lastCall.space

\* A call with a budget below 180, and one that returned icon at the
\* budget floor.
C16_Witness ==
  /\ BothCalled
  /\ sample.space < 60 * Len(coreItems)
  /\ sample.out.mode = "mobile"
  /\ lastCall.out.mode = "icon"
  /\ lastCall.out.visible = FirstThreeIds
  /\ lastCall.space = 200

\* C17 (as claimed): when the full-mode widths of all the items fit the
\* measured container width, with no allowance for the More trigger, the
\* Mode Selector returns mode full with every item visible and none hidden.
C17_FullWhenAllFitContainer ==
  (/\ Called(lastCall)
   /\ lastCall.in[1] >= 768
   /\ lastCall.in[2]
   /\ SumWidths(navItems, "full") <= lastCall.in[3]) =>
    /\ lastCall.out.mode = "full"
    /\ lastCall.out.visible = Ids(navItems)
    /\ lastCall.out.hidden = <<>>

\* C18 (as claimed): for every window width and container width,
\* calculateAvailableSpace returns a value that is not negative and not
\* below the floor of 200.
C18_BudgetFloor ==
  \A call \in {lastCall, sample} :
    Called(call) => (call.space >= 0 /\ call.space >= 200)

\* The configured item with an id, its priority and its place in navItems.
declaredAt == [id \in ItemIds |-> CHOOSE i \in 1..Len(navItems) : navItems[i].id = id]
DeclaredAt(id) == declaredAt[id]
ItemOf(id) == navItems[DeclaredAt(id)]
PriorityOf(id) == ItemOf(id).priority
ItemsOf(ids) == [i \in 1..Len(ids) |-> ItemOf(ids[i])]
OptionalIds == Ids(dynamicItems)

\* C23: in every result of the Mode Selector that is not mobile, the visible
\* optional items are a prefix of the optional items in ascending priority:
\* when an optional item is hidden, so is every optional item after it.
C23_OptionalPrefix ==
  \A call \in {lastCall, sample} :
    (Called(call) /\ call.out.mode # "mobile") =>
      \A i, j \in 1..Len(OptionalIds) :
        (i < j /\ OptionalIds[i] \in Range(call.out.hidden))
          => OptionalIds[j] \in Range(call.out.hidden)

\* A compact result and an icon result that both hide some optional items
\* and show others.
C23_Witness ==
  /\ BothCalled
  /\ lastCall.out.mode = "compact"
  /\ "groups" \in Range(lastCall.out.visible)
  /\ "forms" \in Range(lastCall.out.hidden)
  /\ sample.out.mode = "icon"
  /\ Len(sample.out.visible) > 3
  /\ Len(sample.out.hidden) > 0

\* a comes before b: by priority, and by declaration among equal priorities.
Precedes(a, b) ==
  \/ PriorityOf(a) < PriorityOf(b)
  \/ PriorityOf(a) = PriorityOf(b) /\ DeclaredAt(a) < DeclaredAt(b)
InPriorityOrder(ids) == \A i, j \in 1..Len(ids) : i < j => Precedes(ids[i], ids[j])

\* C24: in every result of the Mode Selector the visible list and the hidden
\* list are each in ascending priority, declaration order deciding among
\* equal priorities, and every visible item comes before every hidden one.
C24_PriorityOrder ==
  LET call == lastCall
  IN  Called(call) =>
      /\ InPriorityOrder(call.out.visible)
      /\ InPriorityOrder(call.out.hidden)
      /\ \A v \in Range(call.out.visible), h \in Range(call.out.hidden) :
           Precedes(v, h)

\* A compact result with several optional items on each side.
C24_Witness ==
  /\ Called(lastCall)
  /\ lastCall.out.mode = "compact"
  /\ Len(lastCall.out.visible) >= 5
  /\ Len(lastCall.out.hidden) >= 2

\* C25 (as claimed): the first of full, compact, icon that places the
\* alwaysVisible items and at least one optional item is selected, the other
\* optional items hidden: when the full pass places the alwaysVisible items
\* and some but not all optional items, the result is full with those items
\* visible and the others hidden.
C25_FullWithOverflow ==
  (/\ Called(lastCall)
   /\ lastCall.in[1] >= 768
   /\ Len(PassVisible("full", lastCall.space)) > Len(coreItems)
   /\ Len(PassVisible("full", lastCall.space)) < Len(navItems)) =>
    /\ lastCall.out.mode = "full"
    /\ lastCall.out.visible = Ids(PassVisible("full", lastCall.space))
    /\ Len(lastCall.out.hidden) > 0

\* C27: in every result of the Mode Selector that is not mobile, the widths
\* of the visible items in the returned mode (measured text + 72 in full and
\* compact, 60 each in icon) add up to no more than the available space.
C27_VisibleFitsBudget ==
  \A call \in {lastCall, sample} :
    (Called(call) /\ call.out.mode # "mobile") =>
      SumWidths(ItemsOf(call.out.visible), call.out.mode) <= call.space

\* An icon result at the budget floor of 200 (container width 0), and a
\* compact result that fills its budget to the pixel.
C27_Witness ==
  /\ BothCalled
  /\ sample.out.mode = "icon"
  /\ sample.in[3] = 0
  /\ sample.space = 200
  /\ lastCall.out.mode = "compact"
  /\ SumWidths(ItemsOf(lastCall.out.visible), "compact") = lastCall.space

(***************************************************************************)
(* Specification of the component with its More menu: lifecycle, window    *)
(* and container resizes with their debounce timers, pointer gestures.     *)
(* (The orientation and zoom handlers are examined in SpecDebounce.)       *)
(***************************************************************************)
Next ==
  \/ MountEffect /\ NoHistory
  \/ Unmount /\ NoHistory
  \/ Render /\ NoHistory
  \/ \E w \in WindowWidths : WindowResize(w) /\ NoHistory
  \/ \E c \in ContainerWidths : ObserverResize(c) /\ NoHistory
  \/ Tick /\ NoHistory
  \/ \E t \in timerTable : TimerFires(t) /\ NoHistory
  \/ \E t \in Targets : MouseDown(t) /\ NoHistory
  \/ Click /\ NoHistory
  \/ PointerLost /\ NoHistory

Spec == Init /\ [][Next]_vars

(***************************************************************************)
(* Claims about the More menu (Spec).                                      *)
(***************************************************************************)
MenuOpen == showMoreDropdown
TriggerDisplayed ==
  Displayed(Target("more", "")) \/ Displayed(Target("mobileMore", ""))
\* The overflow panel the user sees: the desktop dropdown or the mobile one.
PanelDisplayed ==
  \/ /\ phase # "unmounted"
     /\ Len(hiddenItems) > 0 /\ showMoreDropdown /\ innerWidth >= 768
  \/ /\ phase # "unmounted"
     /\ showMoreDropdown /\ innerWidth < 768

\* C5 (as claimed): in every state of the component the More trigger is on
\* screen exactly when the committed hiddenItems list is not empty, and with
\* an empty hiddenItems list neither the trigger nor the overflow panel is.
C5_TriggerIffHidden ==
  phase # "unmounted" =>
    /\ TriggerDisplayed <=> Len(hiddenItems) > 0
    /\ Len(hiddenItems) = 0 => ~PanelDisplayed

\* C9 (as claimed): a pointer-down and click on the More trigger, desktop or
\* mobile, toggles the menu: once the click is handled the menu is open if
\* it was closed before the gesture, and closed if it was open.
TriggerElements == {"more", "mobileMore"}
C9_TriggerToggles ==
  (gesture.phase = "clicked" /\ gesture.target.el \in TriggerElements)
    => (showMoreDropdown <=> ~gesture.wasOpen)

\* C10 (as claimed): a pointer-down and click on an item of the open
\* overflow panel, desktop or mobile, calls onNavigate once with the item's
\* id and then closes the menu; the menu is not closed before the call.
PanelElements == {"dropdownItem", "mobileDropdownItem"}
C10_SelectNavigatesThenCloses ==
  (gesture.target.el \in PanelElements /\ gesture.wasOpen) =>
    /\ gesture.phase = "down" => showMoreDropdown
    /\ gesture.phase # "down" =>
         /\ gesture.phase = "clicked"
         /\ gesture.calls = <<gesture.target.id>>
         /\ ~showMoreDropdown

\* C11 (as claimed): with the menu open, a pointer-down outside the More
\* trigger and the overflow panel closes the menu, and a pointer-down on the
\* trigger or inside the displayed panel leaves it open, whether or not the
\* trigger and the panel are mounted.
C11_OutsideClosesInsideKeeps ==
  (gesture.phase = "down" /\ gesture.wasOpen) =>
    IF gesture.target.el \in TriggerElements \cup PanelElements
    THEN showMoreDropdown
    ELSE ~showMoreDropdown

\* The overflow panel comes on screen in this step.
PanelAppears == ~PanelDisplayed /\ PanelDisplayed'
\* This step is the click of a gesture on a More trigger.
TriggerActivated ==
  /\ gesture.phase = "down"
  /\ gesture'.phase = "clicked"
  /\ gesture.target.el \in TriggerElements

\* C12 (as claimed): the menu starts closed, and the overflow panel comes on
\* screen only in the step that handles a click on a More trigger.
C12_PanelAppearsOnlyOnTrigger ==
  /\ ~showMoreDropdown
  /\ [][PanelAppears => TriggerActivated]_vars

\* C14 (as claimed): in every state of the component at a window width of
\* 768 or more, the first render included, the committed visibleItems list
\* is not empty.
C14_NeverEmptyBar ==
  (phase # "unmounted" /\ innerWidth >= 768) => Len(visibleItems) > 0

ItemElements == {"navItem", "mobileItem", "dropdownItem", "mobileDropdownItem"}
\* This step handles the click on a navigation item.
ItemActivated ==
  /\ gesture.phase = "down"
  /\ gesture'.phase = "clicked"
  /\ gesture.target.el \in ItemElements

\* C20: the click on a navigation item (inline, in the mobile bar or in an
\* overflow panel) calls onNavigate once, with the item's id, and changes
\* neither the current view nor the committed mode, visible and hidden lists.
C20_ItemClickOnlyNavigates ==
  [][ItemActivated =>
       /\ gesture'.calls = <<gesture.target.id>>
       /\ UNCHANGED <<layoutVars, currentView>>]_vars

\* A click handled on an item of the desktop overflow panel.
C20_Witness ==
  /\ gesture.phase = "clicked"
  /\ gesture.target.el = "dropdownItem"
  /\ gesture.calls = <<gesture.target.id>>
  /\ navigationMode = "compact"
  /\ ~showMoreDropdown

\* The committed layout state.
Committed ==
  [mode |-> navigationMode, visible |-> visibleItems, hidden |-> hiddenItems]

\* A step that runs updateNavigationVisibility: the initial calculation or
\* a debounce timer's callback.
UpdateRuns == MountEffect \/ \E t \in timerTable : TimerFires(t)

\* C26: updateNavigationVisibility (the initial calculation and every
\* timer callback) sets the committed mode, visibleItems and hiddenItems to
\* the computed layout when that differs from the committed one in mode or
\* in the ids of visible or hidden, and leaves the three unchanged when it
\* does not; previousNavigationState equals the committed layout in every
\* state.
C26_UpdateIffChanged ==
  /\ [](previousNavigationState = Committed)
  /\ [][UpdateRuns =>
          IF Selected # Committed
          THEN Committed' = Selected /\ Committed' # Committed
          ELSE Committed' = Committed]_vars

\* After an update at window width 1100 with a container of width 0:
\* the icon layout with the three alwaysVisible items is committed, which
\* has the lists of the mobile layout and another mode.
C26_Witness ==
  /\ phase = "mounted"
  /\ timerTable = {}
  /\ innerWidth = 1100
  /\ containerMounted
  /\ containerWidth = 0
  /\ Committed = [MobileLayout EXCEPT !.mode = "icon"]
  /\ previousNavigationState = Committed

(***************************************************************************)
(* Specification of the debounced handlers: every notification kind, the   *)
(* timers and the lifecycle, with the history of what the timers ran.      *)
(***************************************************************************)
\* The history counters tell none, one and more than one apart.
UpTo2(n) == IF n < 2 THEN n ELSE 2

handleOfNext(kind) ==
  CASE kind = "resize" -> navigationResizeTimeout'
    [] kind = "zoom" -> navigationZoomTimeout'
    [] kind = "observer" -> navigationObserverTimeout'

\* A notification has set the timer of the handler `kind`.
NotifyHistory(kind) ==
  /\ fired' = [fired EXCEPT ![kind] = 0]
  /\ notified' = [notified EXCEPT ![kind] =
                    IF handleOf(kind) # 0 THEN UpTo2(@ + 1) ELSE 1]
  /\ burstFired' = IF burstTimer # 0 THEN burstFired ELSE 0
  /\ burstTimer' = handleOfNext(kind)

\* The timer t has run its recomputation.
FireHistory(t) ==
  /\ fired' = [fired EXCEPT ![t.kind] = UpTo2(@ + 1)]
  /\ burstFired' = UpTo2(burstFired + 1)
  /\ burstTimer' = IF burstTimer = t.id THEN 0 ELSE burstTimer
  /\ UNCHANGED notified

ForgetHistory ==
  /\ fired' = [k \in TimerKinds |-> 0]
  /\ notified' = [k \in TimerKinds |-> 0]
  /\ burstTimer' = 0
  /\ burstFired' = 0

NextDebounce ==
  \/ MountEffect /\ NoHistory
  \/ Unmount /\ ForgetHistory /\ UNCHANGED <<selectorHistory, measureVars, estimate, rendering, app>>
  \/ Render /\ NoHistory
  \/ \E w \in WindowWidths :
       /\ WindowResize(w)
       /\ IF Listening THEN NotifyHistory("resize") ELSE UNCHANGED debounceHistory
       /\ UNCHANGED <<selectorHistory, measureVars, estimate, rendering, app>>
  \/ \E w \in WindowWidths :
       OrientationChange(w) /\ NotifyHistory("resize") /\ UNCHANGED <<selectorHistory, measureVars, estimate, rendering, app>>
  \/ \E w \in WindowWidths :
       ViewportResize(w) /\ NotifyHistory("zoom") /\ UNCHANGED <<selectorHistory, measureVars, estimate, rendering, app>>
  \/ \E c \in ContainerWidths :
       /\ ObserverResize(c)
       /\ IF c > 0 THEN NotifyHistory("observer") ELSE UNCHANGED debounceHistory
       /\ UNCHANGED <<selectorHistory, measureVars, estimate, rendering, app>>
  \/ Tick /\ NoHistory
  \/ \E t \in timerTable :
       TimerFires(t) /\ FireHistory(t) /\ UNCHANGED <<selectorHistory, measureVars, estimate, rendering, app>>

SpecDebounce == Init /\ [][NextDebounce]_vars

PendingOf(kind) == {t \in timerTable : t.kind = kind}

measureNavItems ==
  << [id |-> "dashboard", label |-> "Dashboard"],
     [id |-> "members",   label |-> "Members"],
     [id |-> "giving",    label |-> "Giving"],
     [id |-> "events",    label |-> "Events"],
     [id |-> "reports",   label |-> "Reports"] >>

Views == {"dashboard", "members"}
Users == {"Demo User", "Pastor John"}
\* offsetWidth values of the logo area and of the user area.
LogoAreaWidths == {100}
UserAreaWidths == {100, 200}

\* offsetWidth of an item's button: px-6, a w-5 icon with mr-2 and the label
\* in text-base; 0 below md, where the items' container is not displayed.
offsetWidth(item, windowWidth) ==
  IF windowWidth < 768 THEN 0 ELSE MeasureText(item.label, 16) + 48 + 20 + 8

containerPadding(windowWidth) ==
  IF windowWidth >= 1024 THEN 64 ELSE IF windowWidth >= 640 THEN 48 ELSE 32

RECURSIVE SumOffsetWidths(_, _)
SumOffsetWidths(items, windowWidth) ==
  IF items = <<>> THEN 0
  ELSE offsetWidth(Head(items), windowWidth) + SumOffsetWidths(Tail(items), windowWidth)

\* navItems.forEach(item => { if (runningWidth + itemWidth + itemSpacing >
\* availableNavSpace) overflowItems.push(item.id); else runningWidth += ... })
RECURSIVE overflowItems(_, _, _, _)
overflowItems(items, runningWidth, availableNavSpace, windowWidth) ==
  IF items = <<>> THEN <<>>
  ELSE LET itemWidth == offsetWidth(Head(items), windowWidth)
           itemSpacing == IF runningWidth > 0 THEN 8 ELSE 0
       IN  IF runningWidth + itemWidth + itemSpacing > availableNavSpace
           THEN <<Head(items).id>> \o
                overflowItems(Tail(items), runningWidth, availableNavSpace, windowWidth)
           ELSE overflowItems(Tail(items), runningWidth + itemWidth + itemSpacing,
                              availableNavSpace, windowWidth)

\* What measureNavigation hands to setMeasurements when its refs are set.
newMeasurements(logoAreaWidth, userAreaWidth) ==
  LET availableNavSpace == containerWidth - logoAreaWidth - userAreaWidth
                             - containerPadding(innerWidth)
  IN  [containerWidth |-> containerWidth,
       logoAreaWidth |-> logoAreaWidth,
       userAreaWidth |-> userAreaWidth,
       availableNavSpace |-> availableNavSpace,
       totalNavItemsWidth |-> SumOffsetWidths(measureNavItems, innerWidth)
                                + (Len(measureNavItems) - 1) * 8,
       overflowItems |-> overflowItems(measureNavItems, 0, availableNavSpace,
                                       innerWidth)]

\* measureNavigation(): it returns at once when a ref is null, as the refs
\* of an unmounted instance are.
measureNavigation(refsSet) ==
  IF refsSet
  THEN \E logoAreaWidth \in LogoAreaWidths, userAreaWidth \in UserAreaWidths :
         measurements' = newMeasurements(logoAreaWidth, userAreaWidth)
  ELSE UNCHANGED measurements

\* setTimeout(callback, delay) on the timers of the measuring variant.
measureSetTimeout(table, origin, delay) ==
  table \cup {[id |-> NewTimerId(table), origin |-> origin, left |-> delay]}

\* measureWithDelay(): setTimeout(() => measureNavigation(), 100), the id
\* is not kept.
measureWithDelay(table) == measureSetTimeout(table, "initial", 100)

\* if (containerRef.current) setTimeout(() => measureNavigation(), 100), the
\* id is not kept.
userChangeEffect(table) == measureSetTimeout(table, "user", 100)

\* The ResizeObserver callback and handleResize: clearTimeout(
\* window.navigationMeasurementTimeout); window.navigationMeasurementTimeout
\* = setTimeout(() => measureNavigation(), 150).
measureDebounce ==
  LET cleared == clearTimeout(measureTimers, navigationMeasurementTimeout)
  IN  /\ Cardinality(cleared) < MaxPending
      /\ measureTimers' = measureSetTimeout(cleared, "debounce", 150)
      /\ navigationMeasurementTimeout' = NewTimerId(cleared)

\* The cleanup of the first effect: resizeObserver.disconnect();
\* removeEventListener('resize', handleResize);
\* clearTimeout(window.navigationMeasurementTimeout).
measureCleanup(table) == clearTimeout(table, navigationMeasurementTimeout)

navigationVars == <<phase, closureNavigationMode, layoutVars, menuVars, timerVars,
                    selectorHistory, debounceHistory, estimate, rendering, app>>

\* Mount: both effects run.  (The model mounts the next instance once the
\* timers of the one before have run, so a pending timer belongs to the
\* mounted instance or, with none mounted, to the last one.)
MeasureMount ==
  /\ measurePhase = "unmounted"
  /\ measureTimers = {}
  /\ measurePhase' = "mounted"
  /\ measurements' = NoMeasurements
  /\ measureTimers' = userChangeEffect(measureWithDelay(measureTimers))
  /\ UNCHANGED <<envVars, navigationVars, currentView, user,
                 navigationMeasurementTimeout, lateRuns>>

\* currentView changes: the first effect's cleanup, then the effect again.
ViewChange(view) ==
  /\ measurePhase = "mounted"
  /\ view # currentView
  /\ Cardinality(measureTimers) < MaxPending
  /\ currentView' = view
  /\ measureTimers' = measureWithDelay(measureCleanup(measureTimers))
  /\ navigationMeasurementTimeout' = 0
  /\ UNCHANGED <<envVars, navigationVars, measurePhase, user, measurements, lateRuns>>

\* user.name changes: the second effect runs; it has no cleanup.
UserChange(name) ==
  /\ measurePhase = "mounted"
  /\ name # user
  /\ Cardinality(measureTimers) < MaxPending
  /\ user' = name
  /\ measureTimers' = userChangeEffect(measureTimers)
  /\ UNCHANGED <<envVars, navigationVars, measurePhase, currentView,
                 navigationMeasurementTimeout, measurements, lateRuns>>

\* window 'resize'
MeasureWindowResize(w) ==
  /\ innerWidth' = w
  /\ IF measurePhase = "mounted"
     THEN measureDebounce
     ELSE UNCHANGED <<measureTimers, navigationMeasurementTimeout>>
  /\ UNCHANGED <<containerWidth, containerMounted, navigationVars, measurePhase,
                 currentView, user, measurements, lateRuns>>

\* ResizeObserver on the container
MeasureObserverResize(c) ==
  /\ measurePhase = "mounted"
  /\ containerWidth' = c
  /\ measureDebounce
  /\ UNCHANGED <<innerWidth, containerMounted, navigationVars, measurePhase,
                 currentView, user, measurements, lateRuns>>

\* Unmount: the first effect's cleanup; the instance's refs become null.
MeasureUnmount ==
  /\ measurePhase = "mounted"
  /\ measurePhase' = "unmounted"
  /\ measureTimers' = measureCleanup(measureTimers)
  /\ navigationMeasurementTimeout' = 0
  /\ measurements' = NoMeasurements
  /\ UNCHANGED <<envVars, navigationVars, currentView, user, lateRuns>>

\* Time passes, never past a pending timer's expiry, in steps of the
\* shorter delay.
MeasureTick ==
  /\ measureTimers # {}
  /\ \A t \in measureTimers : t.left > 0
  /\ LET d == IF MinLeft(measureTimers) < 100 THEN MinLeft(measureTimers) ELSE 100
     IN  measureTimers' = {[t EXCEPT !.left = t.left - d] : t \in measureTimers}
  /\ UNCHANGED <<envVars, navigationVars, measurePhase, currentView, user,
                 navigationMeasurementTimeout, measurements, lateRuns>>

\* An expired timer runs its callback: measureNavigation().
MeasureTimerFires(t) ==
  /\ t \in measureTimers
  /\ t.left = 0
  /\ measureTimers' = measureTimers \ {t}
  /\ navigationMeasurementTimeout' =
       IF navigationMeasurementTimeout = t.id THEN 0 ELSE navigationMeasurementTimeout
  /\ measureNavigation(measurePhase = "mounted")
  /\ lateRuns' = IF measurePhase = "mounted" THEN lateRuns ELSE UpTo2(lateRuns + 1)
  /\ UNCHANGED <<envVars, navigationVars, measurePhase, currentView, user>>

NextMeasure ==
  \/ MeasureMount
  \/ \E view \in Views : ViewChange(view)
  \/ \E name \in Users : UserChange(name)
  \/ \E w \in WindowWidths : MeasureWindowResize(w)
  \/ \E c \in ContainerWidths : MeasureObserverResize(c)
  \/ MeasureUnmount
  \/ MeasureTick
  \/ \E t \in measureTimers : MeasureTimerFires(t)

SpecMeasure == Init /\ [][NextMeasure]_vars

(***************************************************************************)
(* Claims about teardown.                                                  *)
(***************************************************************************)
\* C8 (as claimed): once the navigation is unmounted none of its timers is
\* pending and no timer callback of the unmounted instance runs.
C8_NothingRunsAfterUnmount ==
  /\ lateRuns = 0
  /\ measurePhase = "unmounted" => measureTimers = {}

(***************************************************************************)
(* Specification of the width estimator on its own: measureItemWidth is    *)
(* applied to every item, text mode and surface.                           *)
(***************************************************************************)
TextModes == {"full", "compact"}

MeasureItem(i, mode, surface) ==
  /\ estimate' = [called |-> TRUE, item |-> i, mode |-> mode, surface |-> surface,
                  threw |-> measureItemWidthOn(surface, navItems[i], mode).threw,
                  width |-> measureItemWidthOn(surface, navItems[i], mode).width]
  /\ UNCHANGED <<envVars, phase, closureNavigationMode, layoutVars, menuVars,
                 timerVars, selectorHistory, debounceHistory, measureVars,
                 rendering, app>>

NextEstimator ==
  \E i \in 1..Len(navItems), mode \in TextModes, surface \in Surfaces :
    MeasureItem(i, mode, surface)

SpecEstimator == Init /\ [][NextEstimator]_vars

\* C19 (as claimed): with no text-measuring surface (no window, or no canvas
\* 2D context) measureItemWidth does not throw and returns a positive
\* estimate that grows with the character count of the label.
C19_FallbackEstimate ==
  (estimate.called /\ estimate.surface # "canvas") =>
    /\ ~estimate.threw
    /\ estimate.width > 0
    /\ \A j \in 1..Len(navItems) :
         Len(navItems[j].label) > Len(navItems[estimate.item].label) =>
           measureItemWidthOn(estimate.surface, navItems[j], estimate.mode).width
             > estimate.width

(***************************************************************************)
(* The label of an item button: getLabel() and the title attribute of the  *)
(* desktop section's buttons, applied to every item, mode and zoom.        *)
(***************************************************************************)
\* window.outerWidth values of the environment: with the window widths they
\* give zoom levels from 50% to 440%, 100% and 110% among them.
OuterWidths == {550, 1100, 1210, 2200}

Label(text) == [isNull |-> FALSE, text |-> text]

\* Math.round((window.outerWidth / window.innerWidth) * 100)
zoomLevel(outer, inner) == (200 * outer + inner) \div (2 * inner)

\* getLabel() of the item, in a browser (window is defined).
getLabel(item, navMode, outer, inner) ==
  CASE navMode = "full" -> Label(item.label)
    [] navMode = "compact" ->
         IF /\ item.id = "dashboard"
            /\ zoomLevel(outer, inner) >= 100
            /\ zoomLevel(outer, inner) <= 110
         THEN Label(item.label)
         ELSE Label(IF item.shortLabel # "" THEN item.shortLabel ELSE item.label)
    [] navMode = "icon" -> NullLabel
    [] OTHER -> Label(item.label)

\* title={navigationMode === 'icon' ? item.label : undefined}
titleOf(item, navMode) ==
  IF navMode = "icon" THEN Label(item.label) ELSE NullLabel

\* One item button of the desktop section is rendered.
RenderItem(i, navMode, outer) ==
  /\ rendering' = [called |-> TRUE, item |-> i, mode |-> navMode,
                   outerWidth |-> outer,
                   label |-> getLabel(navItems[i], navMode, outer, innerWidth),
                   title |-> titleOf(navItems[i], navMode)]
  /\ UNCHANGED <<envVars, phase, closureNavigationMode, layoutVars, menuVars,
                 timerVars, selectorHistory, debounceHistory, measureVars,
                 estimate, app>>

NextLabel ==
  \E i \in 1..Len(navItems), navMode \in Modes, outer \in OuterWidths :
    RenderItem(i, navMode, outer)

SpecLabel == Init /\ [][NextLabel]_vars

\* The item the latest rendering was of.
RenderedItem == navItems[rendering.item]

\* C21 (as claimed): the label of an item button depends on the committed
\* mode and the item alone: the full label in full mode, the shortLabel (the
\* full label where there is none) in compact mode, and in icon mode no text
\* with the full label as the title; every item alike.
C21_LabelByModeOnly ==
  rendering.called =>
    /\ rendering.mode = "full" => rendering.label = Label(RenderedItem.label)
    /\ rendering.mode = "compact" =>
         rendering.label = Label(IF RenderedItem.shortLabel # ""
                                 THEN RenderedItem.shortLabel
                                 ELSE RenderedItem.label)
    /\ rendering.mode = "icon" =>
         /\ rendering.label = NullLabel
         /\ rendering.title = Label(RenderedItem.label)

\* C29 (as claimed): in the text modes full and compact, the text whose
\* width measureItemWidth takes for an item is the label rendered for the
\* item in that mode, at every zoom level.
C29_MeasuredLabelIsRendered ==
  (rendering.called /\ rendering.mode \in TextModes) =>
    rendering.label = Label(MeasuredText(RenderedItem, rendering.mode))

(***************************************************************************)
(* The application (src/unnamed/part_011): the authentication gate, the    *)
(* view switch, and the navigation bars the views mount.                   *)
(***************************************************************************)
\* LoginPage.handleDemoLogin: the userData it hands to onDemoLogin.
demoUser ==
  [name |-> "Betty Thompson", role |-> "Church Administrator",
   church |-> "First Baptist Church of Greater Metropolitan Area"]

\* App.handleDemoLogin(userData): setUser(userData); setIsAuthenticated(true)
handleDemoLoginKeepsUser(a, userData) == [a EXCEPT !.isAuthenticated = TRUE]
handleDemoLogin(a, userData) ==
  [a EXCEPT !.user = <<userData>>, !.isAuthenticated = TRUE]

\* App.handleNavigate(view): setCurrentView(view)
handleNavigate(a, view) == [a EXCEPT !.currentView = view]

\* renderCurrentView(): the component, or the inline section named by its
\* first case label, that the switch returns.
renderCurrentView(view) ==
  CASE view \in {"people", "members"} -> "MemberDirectory"
    [] view = "giving" -> "GivingTransactions"
    [] view = "groups" -> "groups"
    [] view = "church-app" -> "church-app"
    [] view \in {"calendar", "events"} -> "calendar"
    [] view = "forms" -> "forms"
    [] view = "workflows" -> "workflows"
    [] view = "reports" -> "reports"
    [] view = "settings" -> "settings"
    [] OTHER -> "Dashboard"

\* What App returns: the login page while not authenticated.
Screen(a) ==
  IF ~a.isAuthenticated THEN "LoginPage" ELSE renderCurrentView(a.currentView)

\* A Dashboard that is not rendered has no state: the next one starts from
\* useState('dashboard') again.
Remount(a) ==
  IF Screen(a) = "Dashboard" THEN a ELSE [a EXCEPT !.dashboardView = "dashboard"]

\* The onNavigate prop of the Navigation the current screen mounts, applied
\* to an id: Dashboard passes its own setCurrentView, MemberDirectory and
\* GivingTransactions pass their onNavigate prop (App's handleNavigate), the
\* inline sections pass handleNavigate.
onNavigate(a, id) ==
  IF Screen(a) = "Dashboard"
  THEN [a EXCEPT !.dashboardView = id]
  ELSE Remount(handleNavigate(a, id))

\* App.handleSparrowAction(action)
handleSparrowAction(a, action) ==
  IF action.type = "navigate" \/ action.type = "filter"
  THEN Remount(handleNavigate(a, action.view))
  ELSE a

\* The views an action of the command bar names: the items' ids and the
\* other case labels of the switch.
SparrowViews == Range(Ids(navItems)) \cup {"people", "events", "church-app"}
SparrowTypes == {"navigate", "filter", "search"}

AppUnchanged ==
  UNCHANGED <<envVars, phase, closureNavigationMode, layoutVars, menuVars,
              timerVars, selectorHistory, debounceHistory, measureVars,
              estimate, rendering>>

\* "Skip Login - Demo Mode" on the login page.
DemoLogin ==
  /\ Screen(app) = "LoginPage"
  /\ app' = handleDemoLogin(app, demoUser)
  /\ AppUnchanged

\* An item of the navigation bar of the current screen is activated.
NavigateFromBar(id) ==
  /\ Screen(app) # "LoginPage"
  /\ app' = onNavigate(app, id)
  /\ AppUnchanged

\* The command bar of the current screen reports an action.
SparrowAction(type, view) ==
  /\ Screen(app) # "LoginPage"
  /\ app' = handleSparrowAction(app, [type |-> type, view |-> view])
  /\ AppUnchanged

NextApp ==
  \/ DemoLogin
  \/ \E id \in Range(Ids(navItems)) : NavigateFromBar(id)
  \/ \E type \in SparrowTypes, view \in SparrowViews : SparrowAction(type, view)

SpecApp == Init /\ [][NextApp]_vars

\* C22: until the demo login the application renders the login page and
\* nothing else happens; the demo login authenticates with the user Betty
\* Thompson and shows the dashboard; from then on, whatever is navigated
\* to, the application stays authenticated and the user stays that user.
C22_DemoLoginGate ==
  /\ [](~app.isAuthenticated => (Screen(app) = "LoginPage" /\ app = AppInit))
  /\ [](app.isAuthenticated =>
          /\ Screen(app) # "LoginPage"
          /\ app.user # <<>>
          /\ app.user[1].name = "Betty Thompson")
  /\ [][/\ ~app.isAuthenticated =>
            (app'.isAuthenticated /\ Screen(app') = "Dashboard")
        /\ app.isAuthenticated =>
            (app'.isAuthenticated /\ app'.user = app.user)]_vars

\* Logged in and, several navigations later, on the settings section.
C22_Witness ==
  /\ app.isAuthenticated
  /\ app.user = <<demoUser>>
  /\ Screen(app) = "settings"

\* C30 (as claimed): in the authenticated application, from every screen,
\* the dashboard included, activating the item with id X in the navigation
\* bar makes X the application's current view and shows the view of X.
C30_BarNavigatesEverywhere ==
  [][\A id \in Range(Ids(navItems)) :
       NavigateFromBar(id) =>
         /\ app'.currentView = id
         /\ Screen(app') = renderCurrentView(id)]_vars

(***************************************************************************)
(* Specification of the component settling after resizes: the lifecycle,   *)
(* every notification kind and the timers, under the scheduling the        *)
(* browser gives: time passes, an expired timer's callback is run, and the *)
(* effect of a committed render is run.                                    *)
(***************************************************************************)
\* A resize notification of any kind reaches the component.
Notification ==
  \/ \E w \in WindowWidths : WindowResize(w)
  \/ \E w \in WindowWidths : OrientationChange(w)
  \/ \E w \in WindowWidths : ViewportResize(w)
  \/ \E c \in ContainerWidths : ObserverResize(c)

TimerRuns == \E t \in timerTable : TimerFires(t)

NextSettle ==
  \/ MountEffect /\ NoHistory
  \/ Unmount /\ NoHistory
  \/ Render /\ NoHistory
  \/ Notification /\ NoHistory
  \/ Tick /\ NoHistory
  \/ TimerRuns /\ NoHistory

SpecSettle ==
  /\ Init
  /\ [][NextSettle]_vars
  /\ WF_vars(MountEffect /\ NoHistory)
  /\ WF_vars(Tick /\ NoHistory)
  /\ WF_vars(TimerRuns /\ NoHistory)

\* The committed layout is the Mode Selector's result for the current
\* window width and container.
Settled == Committed = Selected

\* C28 (as claimed): if from some point on no resize notification arrives,
\* then from some point on, whenever the component is mounted, the
\* committed layout is the Mode Selector's result for the current window
\* width and container width.
C28_SettlesAfterResizes ==
  <>[][~Notification]_vars => <>[](phase = "mounted" => Settled)

\* The container's width is one the ResizeObserver handler acts on, or one
\* the Mode Selector does not read (below 768, or no container).
ContainerWidthHandled ==
  containerWidth > 0 \/ innerWidth < 768 \/ ~containerMounted

\* C28 (amended): if from some point on no resize notification arrives,
\* then from some point on, whenever the component is mounted and the
\* container's width is not 0 at a window width of 768 or more, the
\* committed layout is the Mode Selector's result for the current window
\* width and container width.
C28_SettlesUnlessZeroWidth ==
  <>[][~Notification]_vars =>
    <>[]((phase = "mounted" /\ ContainerWidthHandled) => Settled)

\* Mounted at window width 1100 with the container observed at 1500 and no
\* timer pending: the full layout with every item is committed.
C28_Witness ==
  /\ phase = "mounted"
  /\ timerTable = {}
  /\ innerWidth = 1100
  /\ containerMounted
  /\ containerWidth = 1500
  /\ Settled
  /\ navigationMode = "full"
  /\ visibleItems = Ids(navItems)
====
